---- MODULE Spec2Model ----
(***************************************************************************)
(* Comment-channel coordination protocol of src/p2p/coordinator.py:        *)
(* P2PCoordinator (leader election, peer discovery, task publication,      *)
(* optimistic task claiming, progress aggregation, heartbeat, completion   *)
(* waiting) and the helpers run_as_leader, run_as_worker, execute_task and *)
(* periodic_heartbeat.  The issue's comment thread is the variable         *)
(* channel; every create_comment appends one entry to it.                  *)
(*                                                                         *)
(* Time is counted in minutes (the unit of the discovery TTL).  Sleeps     *)
(* shorter than a minute are positions of a process at which the clock may *)
(* or may not advance.                                                     *)
(***************************************************************************)
EXTENDS Integers, Sequences, FiniteSets, TLC

\* ------------------------------------------------------------------ bounds
Nodes == {"n1", "n2", "n3"}

MaxElect == 2        \* elect_leader calls per node
MaxWorkElect == 1    \* elect_leader calls in all, protocol specification
MaxPublish == 2      \* direct publish_tasks calls of a node
MaxClaims == 2       \* claim_task calls in all, protocol specification
MaxRetryClaims == 3  \* claim_task calls in all, retry specification
MaxFailElect == 2    \* elect_leader calls in all, leader-loss specification
MaxMalformed == 1    \* malformed comments in all, malformed-entry specification
MaxTime == 1         \* last clock value of the protocol specification
MaxPeerTime == 6     \* last clock value of the peer registry specification
MaxAnnounce == 1     \* direct announce_presence calls per node
MaxPeerEntries == 2  \* comments in all, peer registry specification
MaxLiveClaims == 2   \* claim comments the progress specification records
MaxRepublishClaims == 1  \* claim_task calls in all: re-publication, read and departure specifications
MaxScopedClaims == 2     \* direct claim_task calls in all, task-scope specification
MaxStarted == 2          \* nodes that run run_as_leader or run_as_worker, departure specification
MaxBeats == 2            \* HEARTBEAT comments in all, heartbeat specification
MaxReaders == 1      \* nodes that call the read operations directly
MaxAggLen == 3       \* progress reports given to the aggregation alone
MaxAggTime == 2      \* largest timestamp given to the aggregation alone

\* ------------------------------------------------------- program constants
TTL == 5                 \* timedelta(minutes=5)
HeartbeatInterval == 1   \* asyncio.sleep(60)

NoTask == "none"

VARIABLES
    channel,      \* the issue's comments, in the order the server created them
    now,          \* the clock (minutes)
    pc,           \* position of each node's main activity
    hb,           \* each node's heartbeat task: "off", "run", "cancelled"
    next_hb,      \* the earliest time the heartbeat loop's sleep ends
    is_leader,    \* self.is_leader
    tasks,        \* self.tasks (the tasks of the node's last publication)
    marker,       \* the marker of the node's running elect_leader call
    claim_marker, \* the claim_marker of the node's running claim_task call
    cur,          \* the task of the worker loop's current iteration
    ret,          \* the value the node's last call returned
    found,        \* the result of the node's last direct read operation
    start_time,   \* wait_for_completion's start_time
    timeout,      \* wait_for_completion's timeout
    nonce,        \* number of time.time() values the node has put in markers
    elects,       \* elect_leader calls made by the node
    publishes,    \* direct publish_tasks calls made by the node
    announces,    \* direct announce_presence calls made by the node
    agg_in,       \* progress reports handed to the aggregation
    agg_out       \* the aggregation's result for agg_in

vars == <<channel, now, pc, hb, next_hb, is_leader, tasks, marker, claim_marker,
          cur, ret, found, start_time, timeout, nonce, elects,
          publishes, announces, agg_in, agg_out>>

nodeVars == <<pc, hb, next_hb, is_leader, tasks, marker, claim_marker, cur, ret,
              found, start_time, timeout, nonce, elects, publishes,
              announces>>

\* ---------------------------------------------------------------- entries
\* The text of a comment: its marker prefix (type) and the fields of its payload.
Body(type, node, k, task, st, ts, list) ==
    [type |-> type, node |-> node, nonce |-> k, task_id |-> task,
     status |-> st, timestamp |-> ts, tasks |-> list, form |-> "ok"]

ElectionMarker(n, k) == Body("LEADER_ELECTION", n, k, NoTask, "", 0, << >>)
ClaimMarker(t, n, k) == Body("CLAIM", n, k, t, "", 0, << >>)
AnnounceBody(n, ts) == Body("NODE_ANNOUNCE", n, 0, NoTask, "ready", ts, << >>)
HeartbeatBody(n, ts) == Body("HEARTBEAT", n, 0, NoTask, "alive", ts, << >>)
TasksDataBody(n, list) == Body("TASKS_DATA", n, 0, NoTask, "", 0, list)
ProgressBody(t, n, st, ts) == Body("PROGRESS", n, 0, t, st, ts, << >>)
\* A comment for human readers; it starts with none of the markers.
TextBody(what, n, t) == Body("TEXT", n, 0, t, what, 0, << >>)

\* A comment that starts with a marker and whose payload is not what the
\* writers of this module produce: text that is not JSON ("invalid_json"), a
\* JSON object without a field the reader uses ("missing_field"), or a
\* NODE_ANNOUNCE object whose last_heartbeat is no ISO date
\* ("invalid_heartbeat").
MalformedBody(type, kind) ==
    [Body(type, "?", 0, NoTask, "", 0, << >>) EXCEPT !.form = kind]

\* json.loads and the dataclass constructor accept the payload.
WellFormed(c) == c.body.form = "ok"

\* A variant in which a new comment takes the place of the last one.
CreateCommentReplacing(ch, body) ==
    IF ch = << >>
    THEN <<[body |-> body, created_at |-> 1]>>
    ELSE [ch EXCEPT ![Len(ch)] = [body |-> body, created_at |-> Len(ch) + 1]]

\* issue.create_comment: the server stamps the comment with its creation time;
\* the stamps are distinct and grow with the order of creation.
CreateComment(ch, body) ==
    Append(ch, [body |-> body, created_at |-> Len(ch) + 1])

\* list(issue.get_comments())
GetComments(ch) == ch

Range(s) == {s[i] : i \in 1..Len(s)}

\* A variant that takes the comment created last; agreement fails under it.
MinByLast(comments) ==
    CHOOSE c \in Range(comments) :
        \A d \in Range(comments) : d.created_at <= c.created_at

\* min(comments, key=lambda c: c.created_at) of a non-empty list
MinByCreatedAt(comments) ==
    CHOOSE c \in Range(comments) :
        \A d \in Range(comments) : c.created_at <= d.created_at

\* A variant that also takes HEARTBEAT comments for election comments.
IsElectionOrBeat(c) == c.body.type \in {"LEADER_ELECTION", "HEARTBEAT"}

\* Line 106: c.body.startswith("LEADER_ELECTION|")
IsElection(c) == c.body.type = "LEADER_ELECTION"

ElectionComments(ch) == SelectSeq(GetComments(ch), IsElection)

\* ------------------------------------------------------------ elect_leader
\* Lines 93-97: build the marker and append it.
ElectAppend(n, max, total) ==
    /\ pc[n] = "idle"
    /\ elects[n] < max
    /\ Len(ElectionComments(channel)) < total
    /\ LET m == ElectionMarker(n, nonce[n] + 1) IN
        /\ marker' = [marker EXCEPT ![n] = m]
        /\ channel' = CreateComment(channel, m)
    /\ nonce' = [nonce EXCEPT ![n] = @ + 1]
    /\ elects' = [elects EXCEPT ![n] = @ + 1]
    /\ pc' = [pc EXCEPT ![n] = "elect_settle"]
    /\ UNCHANGED <<now, hb, next_hb, is_leader, tasks, claim_marker, cur, ret,
                   found, start_time, timeout, publishes, announces, agg_in, agg_out>>

\* A variant that lets every call whose marker is on the channel win.
ElectionResultAny(ch, m) ==
    \E c \in Range(ElectionComments(ch)) : c.body = m

\* The value elect_leader computes at lines 103-114 from the comments it lists.
ElectionResult(ch, m) ==
    IF Len(ElectionComments(ch)) = 0
    THEN FALSE
    ELSE MinByCreatedAt(ElectionComments(ch)).body = m

\* A variant that assigns the result of the call to the flag, won or lost.
ElectResolveAssigning(n) ==
    /\ pc[n] = "elect_settle"
    /\ \E won \in {ElectionResult(channel, marker[n])} :
        /\ ret' = [ret EXCEPT ![n] = won]
        /\ is_leader' = [is_leader EXCEPT ![n] = won]
        /\ channel' = IF won
                      THEN CreateComment(channel, TextBody("Leader Elected", n, NoTask))
                      ELSE channel
    /\ pc' = [pc EXCEPT ![n] = "idle"]
    /\ UNCHANGED <<now, hb, next_hb, tasks, marker, claim_marker, cur,
                   found, start_time, timeout, nonce, elects, publishes,
                   announces, agg_in, agg_out>>

\* Lines 100-123: after the settle sleep, list, take the earliest election
\* comment, adopt leadership and announce it if it is this call's marker.
ElectResolve(n) ==
    /\ pc[n] = "elect_settle"
    /\ \E won \in {ElectionResult(channel, marker[n])} :
        /\ ret' = [ret EXCEPT ![n] = won]
        /\ is_leader' = [is_leader EXCEPT ![n] = IF won THEN TRUE ELSE @]
        /\ channel' = IF won
                      THEN CreateComment(channel, TextBody("Leader Elected", n, NoTask))
                      ELSE channel
    /\ pc' = [pc EXCEPT ![n] = "idle"]
    /\ UNCHANGED <<now, hb, next_hb, tasks, marker, claim_marker, cur,
                   found, start_time, timeout, nonce, elects, publishes,
                   announces, agg_in, agg_out>>

\* ---------------------------------------------------------- peer registry
\* announce_presence, lines 131-146: the announcement carries the node's
\* record, with last_heartbeat read from the local clock.
AnnouncePresence(ch, n, t) == CreateComment(ch, AnnounceBody(n, t))

\* The P2PNode a NODE_ANNOUNCE comment decodes to (lines 156-158).
NodeOf(c) == [node_id |-> c.body.node, last_heartbeat |-> c.body.timestamp]

IsAnnounce(c) == c.body.type = "NODE_ANNOUNCE"

\* Line 163: datetime.utcnow() - last_hb < timedelta(minutes=5)
IsAlive(last_hb, t) == t - last_hb < TTL

\* discover_peers, lines 150-172: one P2PNode per NODE_ANNOUNCE comment whose
\* last_heartbeat is recent, in the order of the comments.
RECURSIVE DiscoverLoop(_, _)
DiscoverLoop(comments, t) ==
    IF comments = << >>
    THEN << >>
    ELSE LET c == Head(comments)
             rest == DiscoverLoop(Tail(comments), t)
         IN IF IsAnnounce(c) /\ WellFormed(c)
                /\ IsAlive(NodeOf(c).last_heartbeat, t)
            THEN <<NodeOf(c)>> \o rest
            ELSE rest

DiscoverPeers(ch, t) == DiscoverLoop(GetComments(ch), t)

\* Lines 162, 167: datetime.fromisoformat raises ValueError on a last_heartbeat
\* that is no ISO date; the except clause names JSONDecodeError and TypeError
\* only, so discover_peers raises instead of returning DiscoverPeers.
DiscoverRaises(ch) ==
    \E i \in 1..Len(ch) :
        IsAnnounce(ch[i]) /\ ch[i].body.form = "invalid_heartbeat"

\* heartbeat, lines 344-354
HeartbeatComment(ch, n, t) == CreateComment(ch, HeartbeatBody(n, t))

\* ------------------------------------------------------------ task catalog
IsTasksData(c) == c.body.type = "TASKS_DATA"

\* get_available_tasks, lines 220-241: the tasks of the last TASKS_DATA
\* comment whose status is 'available', in the order of the snapshot.
IsAvailable(task) == task.status = "available"

\* A variant that keeps reading the first snapshot published.
FirstSnapshot(comments) ==
    IF SelectSeq(comments, IsTasksData) = << >>
    THEN << >>
    ELSE SelectSeq(comments, IsTasksData)[1].body.tasks

\* Lines 223-239: the loop over reversed(comments) returns at the first
\* TASKS_DATA comment that parses, which is the last one of the list.
LatestSnapshot(comments) ==
    LET Parses(c) == IsTasksData(c) /\ WellFormed(c)
        snapshots == SelectSeq(comments, Parses)
    IN IF snapshots = << >>
       THEN << >>
       ELSE snapshots[Len(snapshots)].body.tasks

GetAvailableTasks(ch) == SelectSeq(LatestSnapshot(GetComments(ch)), IsAvailable)

\* publish_tasks past its leader check, lines 187-214: the human-readable task
\* list, then the structured snapshot.
PublishComments(ch, n, list) ==
    CreateComment(CreateComment(ch, TextBody("Available Tasks", n, NoTask)),
                  TasksDataBody(n, list))

\* ------------------------------------------------------------- claim_task
IsClaim(c) == c.body.type = "CLAIM"

\* The pieces of a task id between its '|' characters.
Segments(t) == IF t = "t1|x" THEN <<"t1", "x">> ELSE <<t>>

\* Line 253: the pieces of the claim text after "CLAIM|", the fields joined
\* by '|' with nothing escaped.
ClaimFields(body) == Segments(body.task_id) \o <<body.node, body.nonce>>

\* Line 266: c.body.startswith("CLAIM|{task_id}|"): the pieces of task_id
\* begin the text and a '|' follows them.
IsClaimFor(c, t) ==
    /\ c.body.type = "CLAIM"
    /\ Len(Segments(t)) < Len(ClaimFields(c.body))
    /\ SubSeq(ClaimFields(c.body), 1, Len(Segments(t))) = Segments(t)

ClaimComments(ch, t) ==
    LET Match(c) == IsClaimFor(c, t) IN SelectSeq(GetComments(ch), Match)

\* A variant that lets every claimant of a claimed task win.
ClaimResultAny(ch, t, m) == Len(ClaimComments(ch, t)) > 0

\* The value claim_task computes at lines 263-274 from the comments it lists.
ClaimResult(ch, t, m) ==
    IF Len(ClaimComments(ch, t)) = 0
    THEN FALSE
    ELSE MinByCreatedAt(ClaimComments(ch, t)).body = m

\* ------------------------------------------------------ progress reporting
\* report_progress, lines 308-340: the human-readable update, then the
\* structured report stamped with the local clock.
ReportProgress(ch, n, t, st, ts) ==
    CreateComment(CreateComment(ch, TextBody("Progress Update", n, t)),
                  ProgressBody(t, n, st, ts))

IsProgress(c) == c.body.type = "PROGRESS"

\* Lines 364-374: the decoded reports, in the order of the comments.
ReportsOf(comments) ==
    LET Loads(c) == IsProgress(c) /\ c.body.form # "invalid_json"
        selected == SelectSeq(comments, Loads)
    IN [i \in 1..Len(selected) |-> selected[i].body]

ProgressReports(ch) == ReportsOf(GetComments(ch))

\* sorted(progress_reports, key=lambda r: r['timestamp']), line 378: Python's
\* sort is stable, so a report goes behind the reports of an equal timestamp
\* that were read before it.
InsertSorted(sorted, r) ==
    LET NotAfter(x) == x.timestamp <= r.timestamp
        p == Len(SelectSeq(sorted, NotAfter))
    IN SubSeq(sorted, 1, p) \o <<r>> \o SubSeq(sorted, p + 1, Len(sorted))

RECURSIVE SortedByTimestamp(_)
SortedByTimestamp(reports) ==
    IF reports = << >>
    THEN << >>
    ELSE InsertSorted(SortedByTimestamp(SubSeq(reports, 1, Len(reports) - 1)),
                      reports[Len(reports)])

\* Lines 377-379: task_status[report['task_id']] = report, in sorted order:
\* every task of a report ends with the last of its reports in that order, and
\* the other keys of the map keep their value.
AssignAll(map, reports) ==
    [t \in DOMAIN map \cup {reports[i].task_id : i \in 1..Len(reports)} |->
        LET Mine(r) == r.task_id = t
            mine == SelectSeq(reports, Mine)
        IN IF mine = << >> THEN map[t] ELSE mine[Len(mine)]]

\* Lines 376-379; the list is sorted once and the sorted list assigned.
TaskStatus(reports) ==
    CHOOSE map \in {AssignAll(<< >>, sorted) :
                        sorted \in {SortedByTimestamp(rs) : rs \in {reports}}} : TRUE

\* Lines 378-379: r['timestamp'] and report['task_id'] raise KeyError on a
\* report without the field; nothing catches it, so get_network_status raises
\* instead of returning NetworkStatus.
StatusRaises(ch) ==
    \/ DiscoverRaises(ch)
    \/ \E i \in 1..Len(ProgressReports(ch)) :
            ProgressReports(ch)[i].form = "missing_field"

CountStatus(map, st) == Cardinality({t \in DOMAIN map : map[t].status = st})

\* len(self.tasks), line 387
TotalTasks(ch, n) == Len(tasks[n])

\* get_network_status, lines 360-394
NetworkStatus(ch, n, t) ==
    CHOOSE st \in
        {[active_nodes |-> Len(peers),
          total_tasks |-> TotalTasks(ch, n),
          available_tasks |-> Len(available),
          completed_tasks |-> CountStatus(map, "completed"),
          in_progress_tasks |-> CountStatus(map, "in_progress"),
          failed_tasks |-> CountStatus(map, "failed"),
          task_status |-> map] :
            peers \in {DiscoverPeers(ch, t)},
            available \in {GetAvailableTasks(ch)},
            map \in {TaskStatus(ProgressReports(ch))}} : TRUE

\* A variant that does not count failed tasks.
AllDoneCompletedOnly(st) ==
    st.total_tasks > 0 /\ st.completed_tasks >= st.total_tasks

\* Line 414: the terminal condition of wait_for_completion
AllDone(st) ==
    st.total_tasks > 0 /\ st.completed_tasks + st.failed_tasks >= st.total_tasks

\* -------------------------------------------------- inputs of the operations
Task(id, prio) == [task_id |-> id, priority |-> prio, status |-> "available"]

\* The task lists a planning component hands to publish_tasks.
TaskLists ==
    { << >>,
      <<Task("t1", "low")>>,
      <<Task("t1", "low"), Task("t2", "high")>>,
      <<Task("t2", "high")>> }

\* The task lists given to run_as_leader.
LeaderTaskLists ==
    { << >>,
      <<Task("t1", "low")>> }

\* A task list with two tasks given to run_as_leader.
TwoTaskLists ==
    { <<Task("t1", "low"), Task("t2", "high")>> }

TaskIds == {"t1", "t2"}

\* wait_for_completion's default timeout, 3600 s (line 398)
DefaultTimeout == 60

\* The timeouts given to a direct wait_for_completion call.
Timeouts == {0, 1}

\* ------------------------------------------------- direct calls of the API
\* announce_presence called by the owner of the coordinator.
Announce(n) ==
    /\ pc[n] = "idle"
    /\ announces[n] < MaxAnnounce
    /\ announces' = [announces EXCEPT ![n] = @ + 1]
    /\ channel' = AnnouncePresence(channel, n, now)
    /\ UNCHANGED <<now, pc, hb, next_hb, is_leader, tasks, marker, claim_marker,
                   cur, ret, found, start_time, timeout, nonce, elects,
                   publishes, agg_in, agg_out>>

\* discover_peers, lines 148-172
Discover(n) ==
    /\ pc[n] = "idle"
    /\ found' = [found EXCEPT ![n] = DiscoverPeers(channel, now)]
    /\ UNCHANGED <<channel, now, pc, hb, next_hb, is_leader, tasks, marker,
                   claim_marker, cur, ret, start_time, timeout, nonce,
                   elects, publishes, announces, agg_in, agg_out>>

\* get_available_tasks called by the owner of the coordinator, lines 218-241
AvailableTasks(n) ==
    /\ pc[n] = "idle"
    /\ found' = [found EXCEPT ![n] = GetAvailableTasks(channel)]
    /\ UNCHANGED <<channel, now, pc, hb, next_hb, is_leader, tasks, marker,
                   claim_marker, cur, ret, start_time, timeout, nonce,
                   elects, publishes, announces, agg_in, agg_out>>

\* A variant of get_network_status that also takes the node's task map from
\* the latest snapshot.
StatusRefreshing(n) ==
    /\ pc[n] = "idle"
    /\ found' = [found EXCEPT ![n] = <<NetworkStatus(channel, n, now)>>]
    /\ tasks' = [tasks EXCEPT ![n] = LatestSnapshot(channel)]
    /\ UNCHANGED <<channel, now, pc, hb, next_hb, is_leader, marker,
                   claim_marker, cur, ret, start_time, timeout, nonce,
                   elects, publishes, announces, agg_in, agg_out>>

\* get_network_status called by the owner of the coordinator, lines 358-394;
\* found holds the returned dict as a list of one element.
Status(n) ==
    /\ pc[n] = "idle"
    /\ found' = [found EXCEPT ![n] = <<NetworkStatus(channel, n, now)>>]
    /\ UNCHANGED <<channel, now, pc, hb, next_hb, is_leader, tasks, marker,
                   claim_marker, cur, ret, start_time, timeout, nonce,
                   elects, publishes, announces, agg_in, agg_out>>

\* A variant of publish_tasks without the leader check.
PublishTasksUnchecked(n, list) ==
    /\ tasks' = [tasks EXCEPT ![n] = list]
    /\ channel' = PublishComments(channel, n, list)

\* publish_tasks, lines 176-216: a node that is not the leader returns at
\* line 185 with nothing done.
PublishTasks(n, list) ==
    /\ tasks' = [tasks EXCEPT ![n] = IF is_leader[n] THEN list ELSE @]
    /\ channel' = IF is_leader[n] THEN PublishComments(channel, n, list) ELSE channel

Publish(n) ==
    /\ pc[n] = "idle"
    /\ publishes[n] < MaxPublish
    /\ publishes' = [publishes EXCEPT ![n] = @ + 1]
    /\ \E list \in TaskLists : PublishTasks(n, list)
    /\ UNCHANGED <<now, pc, hb, next_hb, is_leader, marker, claim_marker, cur, ret,
                   found, start_time, timeout, nonce, elects, announces, agg_in, agg_out>>

\* ------------------------------------------------------ wait_for_completion
\* Line 405: start_time = time.time(), for a direct call with a given timeout.
WaitStart(n) ==
    /\ pc[n] = "idle"
    /\ \E tmo \in Timeouts : timeout' = [timeout EXCEPT ![n] = tmo]
    /\ start_time' = [start_time EXCEPT ![n] = now]
    /\ pc' = [pc EXCEPT ![n] = "wait_check"]
    /\ UNCHANGED <<channel, now, hb, next_hb, is_leader, tasks, marker,
                   claim_marker, cur, ret, found, nonce, elects,
                   publishes, announces, agg_in, agg_out>>

Waiting(n) == pc[n] \in {"wait_check", "l_wait_check"}

AfterWait(p) == IF p = "l_wait_check" THEN "l_final" ELSE "idle"

SleepOf(p) == IF p = "l_wait_check" THEN "l_wait_sleep" ELSE "wait_sleep"

CheckOf(p) == IF p = "l_wait_sleep" THEN "l_wait_check" ELSE "wait_check"

\* Lines 407-418: one iteration of the loop: get the status and return True
\* when the terminal condition holds, otherwise go to sleep.
WaitPoll(n) ==
    /\ Waiting(n)
    /\ now - start_time[n] < timeout[n]
    /\ \E st \in {NetworkStatus(channel, n, now)} :
        IF AllDone(st)
        THEN /\ ret' = [ret EXCEPT ![n] = TRUE]
             /\ pc' = [pc EXCEPT ![n] = AfterWait(pc[n])]
        ELSE /\ ret' = ret
             /\ pc' = [pc EXCEPT ![n] = SleepOf(pc[n])]
    /\ UNCHANGED <<channel, now, hb, next_hb, is_leader, tasks, marker,
                   claim_marker, cur, found, start_time, timeout, nonce, elects,
                   publishes, announces, agg_in, agg_out>>

\* Line 418: asyncio.sleep(30) ends.
WaitSleep(n) ==
    /\ pc[n] \in {"wait_sleep", "l_wait_sleep"}
    /\ pc' = [pc EXCEPT ![n] = CheckOf(pc[n])]
    /\ UNCHANGED <<channel, now, hb, next_hb, is_leader, tasks, marker,
                   claim_marker, cur, ret, found, start_time, timeout,
                   nonce, elects, publishes, announces, agg_in, agg_out>>

\* Lines 407, 420-421: the loop condition fails; return False.
WaitTimeout(n) ==
    /\ Waiting(n)
    /\ ~(now - start_time[n] < timeout[n])
    /\ ret' = [ret EXCEPT ![n] = FALSE]
    /\ pc' = [pc EXCEPT ![n] = AfterWait(pc[n])]
    /\ UNCHANGED <<channel, now, hb, next_hb, is_leader, tasks, marker,
                   claim_marker, cur, found, start_time, timeout, nonce,
                   elects, publishes, announces, agg_in, agg_out>>

\* ------------------------------------------------------------- heartbeat
\* periodic_heartbeat, lines 547-557: heartbeat(), then sleep for a minute.
IsHeartbeat(c) == c.body.type = "HEARTBEAT"

Heartbeat(n) ==
    /\ hb[n] = "run"
    /\ now >= next_hb[n]
    /\ channel' = HeartbeatComment(channel, n, now)
    /\ next_hb' = [next_hb EXCEPT ![n] = now + HeartbeatInterval]
    /\ UNCHANGED <<now, pc, hb, is_leader, tasks, marker, claim_marker, cur, ret,
                   found, start_time, timeout, nonce, elects, publishes,
                   announces, agg_in, agg_out>>

\* ----------------------------------------------------------- run_as_leader
\* Lines 440-450: announce, publish the tasks, start the heartbeat task and
\* enter wait_for_completion with its default timeout.
LeaderStartWith(n, lists) ==
    /\ pc[n] = "idle"
    /\ is_leader[n]
    /\ \E list \in lists :
        /\ tasks' = [tasks EXCEPT ![n] = list]
        /\ channel' = PublishComments(AnnouncePresence(channel, n, now), n, list)
    /\ hb' = [hb EXCEPT ![n] = "run"]
    /\ next_hb' = [next_hb EXCEPT ![n] = now]
    /\ timeout' = [timeout EXCEPT ![n] = DefaultTimeout]
    /\ start_time' = [start_time EXCEPT ![n] = now]
    /\ pc' = [pc EXCEPT ![n] = "l_wait_check"]
    /\ UNCHANGED <<now, is_leader, marker, claim_marker, cur, ret, found, nonce,
                   elects, publishes, announces, agg_in, agg_out>>

LeaderStart(n) == LeaderStartWith(n, LeaderTaskLists)

\* cleanup, lines 423-428
Cleanup(ch, n) == CreateComment(ch, TextBody("Node Departing", n, NoTask))

\* Lines 453-463: the final then cancel the heartbeat task and clean up.
\* A variant of the finally block without heartbeat_task.cancel().
LeaderFinishNoCancel(n) ==
    /\ pc[n] = "l_final"
    /\ hb' = hb
    /\ channel' = Cleanup(channel, n)
    /\ pc' = [pc EXCEPT ![n] = "done"]
    /\ UNCHANGED <<now, next_hb, is_leader, tasks, marker, claim_marker, cur, ret,
                   found, start_time, timeout, nonce, elects, publishes,
                   announces, agg_in, agg_out>>

LeaderFinish(n) ==
    /\ pc[n] = "l_final"
    /\ hb' = [hb EXCEPT ![n] = "cancelled"]
    /\ channel' = Cleanup(channel, n)
    /\ pc' = [pc EXCEPT ![n] = "done"]
    /\ UNCHANGED <<now, next_hb, is_leader, tasks, marker, claim_marker, cur, ret,
                   found, start_time, timeout, nonce, elects, publishes,
                   announces, agg_in, agg_out>>

\* ----------------------------------------------------------- run_as_worker
\* Lines 473-476: announce and start the heartbeat task.
WorkerStart(n) ==
    /\ pc[n] = "idle"
    /\ ~is_leader[n]
    /\ channel' = AnnouncePresence(channel, n, now)
    /\ hb' = [hb EXCEPT ![n] = "run"]
    /\ next_hb' = [next_hb EXCEPT ![n] = now]
    /\ pc' = [pc EXCEPT ![n] = "w_loop"]
    /\ UNCHANGED <<now, is_leader, tasks, marker, claim_marker, cur, ret,
                   found, start_time, timeout, nonce, elects, publishes,
                   announces, agg_in, agg_out>>

\* Line 490: task = tasks[0]
FirstTask(list) == list[1]

\* A variant without lines 484-487: tasks[0] of an empty list raises and the
\* loop ends.
WorkerIterationUnguarded(n, max, idle) ==
    /\ pc[n] = "w_loop"
    /\ GetAvailableTasks(channel) = << >>
    /\ pc' = [pc EXCEPT ![n] = "loop_raised"]
    /\ UNCHANGED <<channel, cur, claim_marker, nonce>>
    /\ UNCHANGED <<now, hb, next_hb, is_leader, tasks, marker, ret, found,
                   start_time, timeout, elects, publishes, announces, agg_in,
                   agg_out>>

\* One iteration of the worker loop up to the settle sleep of claim_task
\* (lines 482-491, 253-260): read the catalog; with no available task, sleep
\* (position idle) and start over; otherwise take the first task and append
\* this node's claim.
WorkerIteration(n, max, idle) ==
    /\ pc[n] = "w_loop"
    /\ LET list == GetAvailableTasks(channel) IN
        IF list = << >>
        THEN /\ pc' = [pc EXCEPT ![n] = idle]
             /\ UNCHANGED <<channel, cur, claim_marker, nonce>>
        ELSE /\ Len(SelectSeq(channel, IsClaim)) < max
             /\ cur' = [cur EXCEPT ![n] = FirstTask(list).task_id]
             /\ LET m == ClaimMarker(FirstTask(list).task_id, n, nonce[n] + 1) IN
                 /\ claim_marker' = [claim_marker EXCEPT ![n] = m]
                 /\ channel' = CreateComment(channel, m)
             /\ nonce' = [nonce EXCEPT ![n] = @ + 1]
             /\ pc' = [pc EXCEPT ![n] = "claim_settle"]
    /\ UNCHANGED <<now, hb, next_hb, is_leader, tasks, marker, ret, found,
                   start_time, timeout, elects, publishes, announces, agg_in,
                   agg_out>>

\* The iteration with the sleep of line 486 taken as no position of its own.
WorkerClaimUpTo(n, max) == WorkerIteration(n, max, "w_loop")

\* Line 486: asyncio.sleep(10) ends; continue.
WorkerWake(n) ==
    /\ pc[n] = "w_sleep"
    /\ pc' = [pc EXCEPT ![n] = "w_loop"]
    /\ UNCHANGED <<channel, now, hb, next_hb, is_leader, tasks, marker,
                   claim_marker, cur, ret, found, start_time, timeout, nonce,
                   elects, publishes, announces, agg_in, agg_out>>

WorkerClaim(n) == WorkerClaimUpTo(n, MaxClaims)

\* The rest of claim_task and the branch of the worker loop on its result
\* (lines 263-284, 493-498, 515-520): list the claims of the task; the author
\* of the earliest one announces the claim and reports the start of
\* execute_task; any other node sleeps and starts over.
ClaimResolve(n) ==
    /\ pc[n] = "claim_settle"
    /\ \E success \in {ClaimResult(channel, cur[n], claim_marker[n])} :
        /\ ret' = [ret EXCEPT ![n] = success]
        /\ channel' =
             IF success
             THEN ReportProgress(
                      CreateComment(channel, TextBody("Task Claimed", n, cur[n])),
                      n, cur[n], "in_progress", now)
             ELSE channel
        /\ pc' = [pc EXCEPT ![n] = IF success THEN "x_work" ELSE "w_loop"]
    /\ UNCHANGED <<now, hb, next_hb, is_leader, tasks, marker, claim_marker, cur,
                   found, start_time, timeout, nonce, elects, publishes,
                   announces, agg_in, agg_out>>

\* ------------------------------------------------------------ execute_task
\* Lines 524-532: the work is done; report the completion.
\* A variant in which the failure branch also runs after the completion report.
ExecCompleteThenFail(n) ==
    /\ pc[n] = "x_work"
    /\ channel' = ReportProgress(ReportProgress(channel, n, cur[n], "completed", now),
                                 n, cur[n], "failed", now)
    /\ pc' = [pc EXCEPT ![n] = "w_loop"]
    /\ UNCHANGED <<now, hb, next_hb, is_leader, tasks, marker, claim_marker, cur,
                   ret, found, start_time, timeout, nonce, elects,
                   publishes, announces, agg_in, agg_out>>

ExecComplete(n) ==
    /\ pc[n] = "x_work"
    /\ channel' = ReportProgress(channel, n, cur[n], "completed", now)
    /\ pc' = [pc EXCEPT ![n] = "w_loop"]
    /\ UNCHANGED <<now, hb, next_hb, is_leader, tasks, marker, claim_marker, cur,
                   ret, found, start_time, timeout, nonce, elects,
                   publishes, announces, agg_in, agg_out>>

\* Lines 536-543: the work raised; report the failure.
ExecFail(n) ==
    /\ pc[n] = "x_work"
    /\ channel' = ReportProgress(channel, n, cur[n], "failed", now)
    /\ pc' = [pc EXCEPT ![n] = "w_loop"]
    /\ UNCHANGED <<now, hb, next_hb, is_leader, tasks, marker, claim_marker, cur,
                   ret, found, start_time, timeout, nonce, elects,
                   publishes, announces, agg_in, agg_out>>

\* ------------------------------------------------------------------- clock
Tick(bound) ==
    /\ now < bound
    /\ now' = now + 1
    /\ UNCHANGED <<channel, nodeVars, agg_in, agg_out>>

\* --------------------------------------------------------- initial state
\* P2PCoordinator.__init__ of every node, and the empty comment thread.
InitNodes ==
    /\ channel = << >>
    /\ now = 0
    /\ pc = [n \in Nodes |-> "idle"]
    /\ hb = [n \in Nodes |-> "off"]
    /\ next_hb = [n \in Nodes |-> 0]
    /\ is_leader = [n \in Nodes |-> FALSE]
    /\ tasks = [n \in Nodes |-> << >>]
    /\ marker = [n \in Nodes |-> ElectionMarker(n, 0)]
    /\ claim_marker = [n \in Nodes |-> ClaimMarker(NoTask, n, 0)]
    /\ cur = [n \in Nodes |-> NoTask]
    /\ ret = [n \in Nodes |-> FALSE]
    /\ found = [n \in Nodes |-> << >>]
    /\ start_time = [n \in Nodes |-> 0]
    /\ timeout = [n \in Nodes |-> 0]
    /\ nonce = [n \in Nodes |-> 0]
    /\ elects = [n \in Nodes |-> 0]
    /\ publishes = [n \in Nodes |-> 0]
    /\ announces = [n \in Nodes |-> 0]

Init ==
    /\ InitNodes
    /\ agg_in = << >>
    /\ agg_out = << >>

\* The protocol: election, publication, the leader and the worker loops, with
\* the clock standing still (every step takes seconds; the clock counts minutes).
Next ==
    \/ \E n \in Nodes : ElectAppend(n, MaxElect, MaxWorkElect)
    \/ \E n \in Nodes : ElectResolve(n)
    \/ \E n \in Nodes : LeaderStart(n)
    \/ \E n \in Nodes : WaitPoll(n)
    \/ \E n \in Nodes : WaitSleep(n)
    \/ \E n \in Nodes : LeaderFinish(n)
    \/ \E n \in Nodes : WorkerStart(n)
    \/ \E n \in Nodes : WorkerClaim(n)
    \/ \E n \in Nodes : ClaimResolve(n)
    \/ \E n \in Nodes : ExecComplete(n)
    \/ \E n \in Nodes : ExecFail(n)

Spec == Init /\ [][Next]_vars

\* The protocol with the clock running.
NextTimed == Next \/ Tick(MaxTime)

SpecTimed == Init /\ [][NextTimed]_vars

\* The task catalog: an election and direct publish_tasks calls of every node.
NextCatalog ==
    \/ \E n \in Nodes : ElectAppend(n, MaxElect, MaxWorkElect)
    \/ \E n \in Nodes : ElectResolve(n)
    \/ \E n \in Nodes : Publish(n)

SpecCatalog == Init /\ [][NextCatalog]_vars

\* publish_tasks of the leader, lines 183-216, with a create_comment that
\* raises: self.tasks is assigned at line 187; then either the task list
\* comment (line 205) raises, or it is appended and the TASKS_DATA comment
\* (line 212) raises.  Nothing catches the exception.
PublishFail(n) ==
    /\ pc[n] = "idle"
    /\ is_leader[n]
    /\ publishes[n] < MaxPublish
    /\ publishes' = [publishes EXCEPT ![n] = @ + 1]
    /\ \E list \in TaskLists : tasks' = [tasks EXCEPT ![n] = list]
    /\ \/ channel' = channel
       \/ channel' = CreateComment(channel, TextBody("Available Tasks", n, NoTask))
    /\ UNCHANGED <<now, pc, hb, next_hb, is_leader, marker, claim_marker, cur, ret,
                   found, start_time, timeout, nonce, elects, announces, agg_in, agg_out>>

\* Elections and publications over a channel whose appends may fail.
NextCatalogFaulty ==
    \/ NextCatalog
    \/ \E n \in Nodes : PublishFail(n)

SpecCatalogFaulty == Init /\ [][NextCatalogFaulty]_vars

\* The worker loops over a catalog of two tasks: claims lost and repeated.
NextRetry ==
    \/ \E n \in Nodes : ElectAppend(n, MaxElect, MaxWorkElect)
    \/ \E n \in Nodes : ElectResolve(n)
    \/ \E n \in Nodes : LeaderStartWith(n, TwoTaskLists)
    \/ \E n \in Nodes : WorkerStart(n)
    \/ \E n \in Nodes : WorkerClaimUpTo(n, MaxRetryClaims)
    \/ \E n \in Nodes : ClaimResolve(n)
    \/ \E n \in Nodes : ExecComplete(n)
    \/ \E n \in Nodes : ExecFail(n)

SpecRetry == Init /\ [][NextRetry]_vars

\* The process of a running leader stops: no cleanup, no further heartbeat.
Crash(n) ==
    /\ pc[n] \in {"l_wait_check", "l_wait_sleep"}
    /\ pc' = [pc EXCEPT ![n] = "crashed"]
    /\ hb' = [hb EXCEPT ![n] = "off"]
    /\ UNCHANGED <<channel, now, next_hb, is_leader, tasks, marker, claim_marker,
                   cur, ret, found, start_time, timeout, nonce, elects,
                   publishes, announces, agg_in, agg_out>>

\* Loss of the leader: elections before and after the leader has started,
\* sent heartbeats and stopped.
NextFailover ==
    \/ \E n \in Nodes : ElectAppend(n, MaxElect, MaxFailElect)
    \/ \E n \in Nodes : ElectResolve(n)
    \/ \E n \in Nodes : LeaderStart(n)
    \/ \E n \in Nodes : Heartbeat(n)
    \/ \E n \in Nodes : Crash(n)
    \/ Tick(MaxTime)

SpecFailover == Init /\ [][NextFailover]_vars

\* publish_tasks and wait_for_completion called by the leader.
LeaderPublish(n) == is_leader[n] /\ Publish(n)

LeaderWaitStart(n) == is_leader[n] /\ WaitStart(n)

\* claim_task called directly with a task id, beside elections and
\* publications.
ScopedTaskIds == {"t1", "t1|x", "t2"}

\* Lines 253-260: the claim comment, up to the settle sleep.
ClaimTask(n, t) ==
    /\ pc[n] = "idle"
    /\ Len(SelectSeq(channel, IsClaim)) < MaxScopedClaims
    /\ cur' = [cur EXCEPT ![n] = t]
    /\ \E m \in {ClaimMarker(t, n, nonce[n] + 1)} :
        /\ claim_marker' = [claim_marker EXCEPT ![n] = m]
        /\ channel' = CreateComment(channel, m)
    /\ nonce' = [nonce EXCEPT ![n] = @ + 1]
    /\ pc' = [pc EXCEPT ![n] = "claim_call"]
    /\ UNCHANGED <<now, hb, next_hb, is_leader, tasks, marker, ret, found,
                   start_time, timeout, elects, publishes, announces, agg_in,
                   agg_out>>

\* A variant that claims again when the claim is lost.
ClaimTaskRetrying(n) ==
    /\ pc[n] = "claim_call"
    /\ \E success \in {ClaimResult(channel, cur[n], claim_marker[n])} :
        /\ ret' = [ret EXCEPT ![n] = success]
        /\ channel' =
             IF success
             THEN CreateComment(channel, TextBody("Task Claimed", n, cur[n]))
             ELSE CreateComment(channel, claim_marker[n])
        /\ pc' = [pc EXCEPT ![n] = IF success THEN "idle" ELSE "claim_call"]
    /\ UNCHANGED <<now, hb, next_hb, is_leader, tasks, marker, claim_marker, cur,
                   found, start_time, timeout, nonce, elects, publishes,
                   announces, agg_in, agg_out>>

\* Lines 263-284: the list, the comparison, the announcement, the return.
ClaimTaskReturn(n) ==
    /\ pc[n] = "claim_call"
    /\ \E success \in {ClaimResult(channel, cur[n], claim_marker[n])} :
        /\ ret' = [ret EXCEPT ![n] = success]
        /\ channel' =
             IF success
             THEN CreateComment(channel, TextBody("Task Claimed", n, cur[n]))
             ELSE channel
    /\ pc' = [pc EXCEPT ![n] = "idle"]
    /\ UNCHANGED <<now, hb, next_hb, is_leader, tasks, marker, claim_marker, cur,
                   found, start_time, timeout, nonce, elects, publishes,
                   announces, agg_in, agg_out>>

NextScoped ==
    \/ \E n \in Nodes : ElectAppend(n, MaxElect, MaxWorkElect)
    \/ \E n \in Nodes : ElectResolve(n)
    \/ \E n \in Nodes : LeaderPublish(n)
    \/ \E n \in Nodes : \E t \in ScopedTaskIds : ClaimTask(n, t)
    \/ \E n \in Nodes : ClaimTaskReturn(n)

SpecScoped == Init /\ [][NextScoped]_vars

\* The calls of elect_leader and claim_task alone, contended.
NextCalls ==
    \/ \E n \in Nodes : ElectAppend(n, MaxElect, MaxFailElect)
    \/ \E n \in Nodes : ElectResolve(n)
    \/ \E n \in Nodes : \E t \in ScopedTaskIds : ClaimTask(n, t)
    \/ \E n \in Nodes : ClaimTaskReturn(n)

SpecCalls == Init /\ [][NextCalls]_vars

\* Heartbeat loops beside elections and claims: the heartbeat task of a
\* started leader or worker appends while other nodes are inside elect_leader
\* or claim_task.
MayBeat == Len(SelectSeq(channel, IsHeartbeat)) < MaxBeats

NextBeat ==
    \/ \E n \in Nodes : ElectAppend(n, MaxElect, MaxFailElect)
    \/ \E n \in Nodes : ElectResolve(n)
    \/ \E n \in Nodes : LeaderStart(n)
    \/ \E n \in Nodes : WorkerStart(n)
    \/ \E n \in Nodes : WorkerClaim(n)
    \/ \E n \in Nodes : ClaimResolve(n)
    \/ \E n \in Nodes : MayBeat /\ Heartbeat(n)

SpecBeat == Init /\ [][NextBeat]_vars

\* The read operations called directly, by nodes that have not started a
\* loop, while an elected leader publishes and workers claim and execute.
MayRead(n) ==
    Cardinality({m \in Nodes : found[m] # << >>} \cup {n}) <= MaxReaders

NextReads ==
    \/ \E n \in Nodes : ElectAppend(n, MaxElect, MaxWorkElect)
    \/ \E n \in Nodes : ElectResolve(n)
    \/ \E n \in Nodes : LeaderPublish(n)
    \/ \E n \in Nodes : WorkerStart(n)
    \/ \E n \in Nodes : WorkerClaimUpTo(n, MaxRepublishClaims)
    \/ \E n \in Nodes : ClaimResolve(n)
    \/ \E n \in Nodes : ExecComplete(n)
    \/ \E n \in Nodes : MayRead(n) /\ Discover(n)
    \/ \E n \in Nodes : MayRead(n) /\ AvailableTasks(n)
    \/ \E n \in Nodes : MayRead(n) /\ Status(n)

SpecReads == Init /\ [][NextReads]_vars

\* The worker loop with its sleep on an empty catalog as a position: workers
\* that start before the publication or read an empty snapshot.
NextIdle ==
    \/ \E n \in Nodes : ElectAppend(n, MaxElect, MaxWorkElect)
    \/ \E n \in Nodes : ElectResolve(n)
    \/ \E n \in Nodes : LeaderStart(n)
    \/ \E n \in Nodes : WorkerStart(n)
    \/ \E n \in Nodes : WorkerIteration(n, MaxClaims, "w_sleep")
    \/ \E n \in Nodes : WorkerWake(n)
    \/ \E n \in Nodes : ClaimResolve(n)
    \/ \E n \in Nodes : ExecComplete(n)
    \/ \E n \in Nodes : ExecFail(n)

SpecIdle == Init /\ [][NextIdle]_vars

\* Re-publication: the leader calls publish_tasks more than once and then
\* wait_for_completion, while workers claim and execute.
NextRepublish ==
    \/ \E n \in Nodes : ElectAppend(n, MaxElect, MaxWorkElect)
    \/ \E n \in Nodes : ElectResolve(n)
    \/ \E n \in Nodes : LeaderPublish(n)
    \/ \E n \in Nodes : LeaderWaitStart(n)
    \/ \E n \in Nodes : WaitPoll(n)
    \/ \E n \in Nodes : WaitSleep(n)
    \/ \E n \in Nodes : WaitTimeout(n)
    \/ \E n \in Nodes : WorkerStart(n)
    \/ \E n \in Nodes : WorkerClaimUpTo(n, MaxRepublishClaims)
    \/ \E n \in Nodes : ClaimResolve(n)
    \/ \E n \in Nodes : ExecComplete(n)
    \/ \E n \in Nodes : ExecFail(n)

SpecRepublish == Init /\ [][NextRepublish]_vars

\* ------------------------------------------------- progress of the work loop
\* The task lists of one and of two tasks given to run_as_leader.
LiveTaskLists ==
    { <<Task("t1", "low")>>,
      <<Task("t1", "low"), Task("t2", "high")>> }

\* WorkerClaimUpTo for a loop that never ends.  Past MaxLiveClaims claim
\* comments, a claim of a task that already has a claim is appended behind
\* that claim and is never the earliest one (created_at grows): no list
\* computes anything from it, its own call included, which finds its marker
\* different from the earliest body.  The channel of this specification
\* leaves such a comment out and its time value is not counted.
WorkerClaimLive(n) ==
    /\ pc[n] = "w_loop"
    /\ \E list \in {GetAvailableTasks(channel)} :
        IF list = << >>
        THEN UNCHANGED <<channel, pc, cur, claim_marker, nonce>>
        ELSE \E t \in {FirstTask(list).task_id} :
             \E recorded \in {\/ Len(SelectSeq(channel, IsClaim)) < MaxLiveClaims
                               \/ ClaimComments(channel, t) = << >>} :
             /\ cur' = [cur EXCEPT ![n] = t]
             /\ claim_marker' = [claim_marker EXCEPT ![n] = ClaimMarker(t, n, nonce[n] + 1)]
             /\ channel' = IF recorded
                           THEN CreateComment(channel, ClaimMarker(t, n, nonce[n] + 1))
                           ELSE channel
             /\ nonce' = [nonce EXCEPT ![n] = IF recorded THEN @ + 1 ELSE @]
             /\ pc' = [pc EXCEPT ![n] = "claim_settle"]
    /\ UNCHANGED <<now, hb, next_hb, is_leader, tasks, marker, ret, found,
                   start_time, timeout, elects, publishes, announces, agg_in,
                   agg_out>>

\* One election, then run_as_leader with at least one task and run_as_worker.
NextLive ==
    \/ \E n \in Nodes : ElectAppend(n, MaxElect, MaxWorkElect)
    \/ \E n \in Nodes : ElectResolve(n)
    \/ \E n \in Nodes : LeaderStartWith(n, LiveTaskLists)
    \/ \E n \in Nodes : WaitPoll(n)
    \/ \E n \in Nodes : WaitSleep(n)
    \/ \E n \in Nodes : LeaderFinish(n)
    \/ \E n \in Nodes : WorkerStart(n)
    \/ \E n \in Nodes : WorkerClaimLive(n)
    \/ \E n \in Nodes : ClaimResolve(n)
    \/ \E n \in Nodes : ExecComplete(n)
    \/ \E n \in Nodes : ExecFail(n)

\* One node's steps in this specification.
NodeLive(n) ==
    \/ ElectResolve(n)
    \/ LeaderStartWith(n, LiveTaskLists)
    \/ WaitPoll(n)
    \/ WaitSleep(n)
    \/ LeaderFinish(n)
    \/ WorkerStart(n)
    \/ WorkerClaimLive(n)
    \/ ClaimResolve(n)
    \/ ExecComplete(n)
    \/ ExecFail(n)

\* Every process that can take a step takes one: its event loop resumes the
\* coroutine when the sleep or the call it awaits has ended, and no channel
\* call fails.
FairLive == \A n \in Nodes : WF_vars(NodeLive(n))

SpecLive == Init /\ [][NextLive]_vars /\ FairLive

\* Lines 276-288: the claim is the earliest, and the create_comment of the
\* 'Task Claimed' announcement (line 277) raises GithubException; the
\* handler returns False and run_as_worker sleeps and loops (lines 496-498).
ClaimAnnounceFail(n) ==
    /\ pc[n] = "claim_settle"
    /\ ClaimResult(channel, cur[n], claim_marker[n])
    /\ ret' = [ret EXCEPT ![n] = FALSE]
    /\ pc' = [pc EXCEPT ![n] = "w_loop"]
    /\ UNCHANGED <<channel, now, hb, next_hb, is_leader, tasks, marker,
                   claim_marker, cur, found, start_time, timeout, nonce, elects,
                   publishes, announces, agg_in, agg_out>>

\* The work loop over a channel on which the announcement of a won claim may
\* fail.  The processes are scheduled as in SpecLive; nothing makes the
\* failure happen.
NextFollow ==
    \/ NextLive
    \/ \E n \in Nodes : ClaimAnnounceFail(n)

SpecFollow == Init /\ [][NextFollow]_vars /\ FairLive

\* ------------------------------------------------------ malformed entries
\* The malformed comments another writer of the issue can leave on it.
MalformedBodies ==
    {MalformedBody(type, kind) :
        type \in {"LEADER_ELECTION", "NODE_ANNOUNCE", "TASKS_DATA", "PROGRESS"},
        kind \in {"invalid_json", "missing_field"}}
    \cup {MalformedBody("NODE_ANNOUNCE", "invalid_heartbeat")}

Inject ==
    /\ Len(SelectSeq(channel, LAMBDA c : ~WellFormed(c))) < MaxMalformed
    /\ \E body \in MalformedBodies : channel' = CreateComment(channel, body)
    /\ UNCHANGED <<now, nodeVars, agg_in, agg_out>>

\* Election and the start of the leader and of the workers (announcements
\* and publication) over a channel that also holds malformed comments.
NextMalformed ==
    \/ Inject
    \/ \E n \in Nodes : ElectAppend(n, MaxElect, MaxWorkElect + MaxMalformed)
    \/ \E n \in Nodes : ElectResolve(n)
    \/ \E n \in Nodes : LeaderStart(n)
    \/ \E n \in Nodes : WorkerStart(n)

SpecMalformed == Init /\ [][NextMalformed]_vars

\* ------------------------------------------------- failures of the channel
\* issue.create_comment or issue.get_comments raises GithubException.

\* elect_leader, lines 103, 125-127: the list fails; the except branch
\* returns False.
ElectListFail(n) ==
    /\ pc[n] = "elect_settle"
    /\ ret' = [ret EXCEPT ![n] = FALSE]
    /\ pc' = [pc EXCEPT ![n] = "idle"]
    /\ UNCHANGED <<channel, now, hb, next_hb, is_leader, tasks, marker,
                   claim_marker, cur, found, start_time, timeout, nonce, elects,
                   publishes, announces, agg_in, agg_out>>

\* claim_task, lines 263, 286-288: the list fails; the except branch returns
\* False and the worker loop sleeps and starts over (lines 496-498).
ClaimListFail(n) ==
    /\ pc[n] = "claim_settle"
    /\ ret' = [ret EXCEPT ![n] = FALSE]
    /\ pc' = [pc EXCEPT ![n] = "w_loop"]
    /\ UNCHANGED <<channel, now, hb, next_hb, is_leader, tasks, marker,
                   claim_marker, cur, found, start_time, timeout, nonce, elects,
                   publishes, announces, agg_in, agg_out>>

\* The finally block of run_as_leader and run_as_worker (lines 461-463,
\* 500-502) while an exception propagates: cancel the heartbeat task and call
\* cleanup, whose append succeeds (ok) or raises in its turn.
Finally(n, ok, raised) ==
    /\ hb' = [hb EXCEPT ![n] = "cancelled"]
    /\ channel' = IF ok THEN Cleanup(channel, n) ELSE channel
    /\ pc' = [pc EXCEPT ![n] = IF ok THEN raised ELSE "cleanup_raised"]

\* run_as_worker, line 482: the list of get_available_tasks (line 220) fails;
\* nothing catches the exception, the loop ends and run_as_worker raises.
WorkerListFail(n) ==
    /\ pc[n] = "w_loop"
    /\ \E ok \in BOOLEAN : Finally(n, ok, "loop_raised")
    /\ UNCHANGED <<now, next_hb, is_leader, tasks, marker, claim_marker, cur, ret,
                   found, start_time, timeout, nonce, elects, publishes,
                   announces, agg_in, agg_out>>

\* wait_for_completion, line 408: a list of get_network_status (lines 150,
\* 220, 364) fails; nothing catches the exception, and wait_for_completion
\* raises into run_as_leader, which raises after its finally block.
WaitPollError(n) ==
    /\ pc[n] = "l_wait_check"
    /\ now - start_time[n] < timeout[n]
    /\ \E ok \in BOOLEAN : Finally(n, ok, "wait_raised")
    /\ UNCHANGED <<now, next_hb, is_leader, tasks, marker, claim_marker, cur, ret,
                   found, start_time, timeout, nonce, elects, publishes,
                   announces, agg_in, agg_out>>

\* run_as_leader, lines 461-463, after wait_for_completion has returned: the
\* append of cleanup (line 425) fails and the exception leaves run_as_leader.
LeaderFinishFail(n) ==
    /\ pc[n] = "l_final"
    /\ Finally(n, FALSE, "cleanup_raised")
    /\ UNCHANGED <<now, next_hb, is_leader, tasks, marker, claim_marker, cur, ret,
                   found, start_time, timeout, nonce, elects, publishes,
                   announces, agg_in, agg_out>>

\* The protocol over a channel whose appends and lists can fail.
NextFaulty ==
    \/ Next
    \/ \E n \in Nodes : ElectListFail(n)
    \/ \E n \in Nodes : ClaimListFail(n)
    \/ \E n \in Nodes : WorkerListFail(n)
    \/ \E n \in Nodes : WaitPollError(n)
    \/ \E n \in Nodes : LeaderFinishFail(n)

SpecFaulty == Init /\ [][NextFaulty]_vars

\* Lines 513-543: the claim was won and announced; the first create_comment
\* of the in_progress report (line 335) raises, and the handler of
\* execute_task reports the failure.
ExecStartFail(n) ==
    /\ pc[n] = "claim_settle"
    /\ ClaimResult(channel, cur[n], claim_marker[n])
    /\ ret' = [ret EXCEPT ![n] = TRUE]
    /\ channel' = ReportProgress(
                      CreateComment(channel, TextBody("Task Claimed", n, cur[n])),
                      n, cur[n], "failed", now)
    /\ pc' = [pc EXCEPT ![n] = "w_loop"]
    /\ UNCHANGED <<now, hb, next_hb, is_leader, tasks, marker, claim_marker, cur,
                   found, start_time, timeout, nonce, elects, publishes,
                   announces, agg_in, agg_out>>

\* Lines 524-543: the text comment of the completion report is appended
\* (line 335), the create_comment of its PROGRESS comment (line 338) raises,
\* and the handler of execute_task reports the failure.
ExecCompleteFail(n) ==
    /\ pc[n] = "x_work"
    /\ channel' = ReportProgress(
                      CreateComment(channel, TextBody("Progress Update", n, cur[n])),
                      n, cur[n], "failed", now)
    /\ pc' = [pc EXCEPT ![n] = "w_loop"]
    /\ UNCHANGED <<now, hb, next_hb, is_leader, tasks, marker, claim_marker, cur,
                   ret, found, start_time, timeout, nonce, elects,
                   publishes, announces, agg_in, agg_out>>

\* The protocol with reports of execute_task that may fail.
NextExecFaulty ==
    \/ Next
    \/ \E n \in Nodes : ExecStartFail(n)
    \/ \E n \in Nodes : ExecCompleteFail(n)

SpecExecFaulty == Init /\ [][NextExecFaulty]_vars

\* The protocol with the heartbeat loops and the clock, up to the departure
\* of the leader (its wait has ended) and of a worker (its loop has raised).
MayStart == Len(SelectSeq(channel, IsAnnounce)) < MaxStarted

NextDepart ==
    \/ \E n \in Nodes : ElectAppend(n, MaxElect, MaxWorkElect)
    \/ \E n \in Nodes : ElectResolve(n)
    \/ \E n \in Nodes : MayStart /\ LeaderStart(n)
    \/ \E n \in Nodes : WaitPoll(n)
    \/ \E n \in Nodes : WaitSleep(n)
    \/ \E n \in Nodes : WaitPollError(n)
    \/ \E n \in Nodes : LeaderFinish(n)
    \/ \E n \in Nodes : MayStart /\ WorkerStart(n)
    \/ \E n \in Nodes : WorkerClaimUpTo(n, MaxRepublishClaims)
    \/ \E n \in Nodes : ClaimResolve(n)
    \/ \E n \in Nodes : ExecComplete(n)
    \/ \E n \in Nodes : MayBeat /\ Heartbeat(n)
    \/ \E n \in Nodes : WorkerListFail(n)
    \/ Tick(MaxTime)

SpecDepart == Init /\ [][NextDepart]_vars

\* Lines 116-127: the call won and has set is_leader (line 117); the
\* announcement's create_comment (line 118) raises GithubException and the
\* handler returns False.
ElectAnnounceFail(n) ==
    /\ pc[n] = "elect_settle"
    /\ ElectionResult(channel, marker[n])
    /\ is_leader' = [is_leader EXCEPT ![n] = TRUE]
    /\ ret' = [ret EXCEPT ![n] = FALSE]
    /\ pc' = [pc EXCEPT ![n] = "idle"]
    /\ UNCHANGED <<channel, now, hb, next_hb, tasks, marker, claim_marker, cur,
                   found, start_time, timeout, nonce, elects, publishes,
                   announces, agg_in, agg_out>>

\* elect_leader called by several nodes over a channel whose operations may
\* fail.
NextElectFaulty ==
    \/ \E n \in Nodes : ElectAppend(n, MaxElect, MaxElect * Cardinality(Nodes))
    \/ \E n \in Nodes : ElectResolve(n)
    \/ \E n \in Nodes : ElectListFail(n)
    \/ \E n \in Nodes : ElectAnnounceFail(n)

SpecElectFaulty == Init /\ [][NextElectFaulty]_vars

\* The election alone, every node calling elect_leader repeatedly.
NextElect ==
    \/ \E n \in Nodes : ElectAppend(n, MaxElect, MaxElect * Cardinality(Nodes))
    \/ \E n \in Nodes : ElectResolve(n)

SpecElect == Init /\ [][NextElect]_vars

\* The peer registry alone: announcements, heartbeat loops, the clock and
\* discover_peers.
NextPeers ==
    \/ \E n \in Nodes : Len(channel) < MaxPeerEntries /\ Announce(n)
    \/ \E n \in Nodes : Len(channel) < MaxPeerEntries /\ WorkerStart(n)
    \/ \E n \in Nodes : Len(channel) < MaxPeerEntries /\ Heartbeat(n)
    \/ \E n \in Nodes : Discover(n)
    \/ Tick(MaxPeerTime)

SpecPeers == Init /\ [][NextPeers]_vars

\* ------------------------------------------------- the aggregation alone
Statuses == {"in_progress", "completed", "failed"}

\* The PROGRESS reports a channel can hold.
Reports ==
    {ProgressBody(t, n, st, ts) :
        t \in {"t1"}, n \in {"n1"}, st \in Statuses, ts \in 0..MaxAggTime}

SeqsUpTo(S, k) == UNION {[1..m -> S] : m \in 0..k}

\* The same reports read in another order.
ReadOrders(k) == {f \in [1..k -> 1..k] : \A i, j \in 1..k : f[i] = f[j] => i = j}

Reordered(reports, f) == [i \in 1..Len(reports) |-> reports[f[i]]]

InitAgg ==
    /\ InitNodes
    /\ agg_in \in SeqsUpTo(Reports, MaxAggLen)
    /\ agg_out = << >>

\* Lines 376-379 applied to the reports as read.
Aggregate ==
    /\ agg_out' = TaskStatus(agg_in)
    /\ agg_out' # agg_out
    /\ UNCHANGED <<channel, now, nodeVars, agg_in>>

\* The reports are read again, in some order, and aggregated.
Reread ==
    /\ agg_out # << >>
    /\ \E f \in ReadOrders(Len(agg_in)) :
        /\ agg_in' = Reordered(agg_in, f)
        /\ agg_out' = TaskStatus(agg_in')
    /\ UNCHANGED <<channel, now, nodeVars>>

NextAgg == Aggregate \/ Reread

SpecAgg == InitAgg /\ [][NextAgg]_vars

\* ------------------------------------------------------------ properties
\* The position of the first comment of the channel that satisfies P.
FirstIdx(ch, P(_)) ==
    CHOOSE i \in 1..Len(ch) : P(ch[i]) /\ \A j \in 1..(i - 1) : ~P(ch[j])

Exists(ch, P(_)) == \E i \in 1..Len(ch) : P(ch[i])

HasElection == Exists(channel, IsElection)

\* The election comment the server created first.
EarliestElection == channel[FirstIdx(channel, IsElection)]

Resolved(n) == pc[n] = "idle" /\ elects[n] > 0

IsLeaderElectedBy(c, n) == c.body = TextBody("Leader Elected", n, NoTask)

\* C1: at most one node holds is_leader, the leader is the author of the
\* election comment with the earliest server creation time, and every finished
\* evaluation returned True exactly to the call that wrote that comment.
C1_ElectionAgreement ==
    /\ Cardinality({n \in Nodes : is_leader[n]}) <= 1
    /\ \A n \in Nodes :
        is_leader[n] => HasElection /\ EarliestElection.body.node = n
    /\ \A n \in Nodes :
        Resolved(n) => (ret[n] <=> marker[n] = EarliestElection.body)

\* Two nodes have evaluated, one of them twice, and one of them leads.
C1_Witness ==
    \E a, b \in Nodes :
        /\ a # b
        /\ Resolved(a) /\ Resolved(b)
        /\ elects[a] = 2
        /\ is_leader[b]

\* C2: when the election comments are one of A followed by one of B, and both
\* calls have returned, A's call returned True and B's False, whatever the
\* order of their appends and lists.
C2_RaceWindow ==
    \A a, b \in Nodes :
        ( /\ a # b
          /\ pc[a] = "idle" /\ pc[b] = "idle"
          /\ Len(ElectionComments(channel)) = 2
          /\ ElectionComments(channel)[1].body = marker[a]
          /\ ElectionComments(channel)[2].body = marker[b] )
        => /\ ret[a] /\ ~ret[b]
           /\ is_leader[a] /\ ~is_leader[b]

\* Both calls have returned and B's comment was on the channel before A listed
\* (A's announcement follows it): both appended before either read.
C2_Witness ==
    \E a, b \in Nodes :
        /\ a # b
        /\ pc[a] = "idle" /\ pc[b] = "idle"
        /\ Len(ElectionComments(channel)) = 2
        /\ ElectionComments(channel)[1].body = marker[a]
        /\ ElectionComments(channel)[2].body = marker[b]
        /\ \E i, j \in 1..Len(channel) :
            /\ i < j
            /\ channel[i].body = marker[b]
            /\ IsLeaderElectedBy(channel[j], a)

HasClaim(t) == \E i \in 1..Len(channel) : IsClaimFor(channel[i], t)

\* The claim comment of task t the server created first.
EarliestClaim(t) ==
    channel[CHOOSE i \in 1..Len(channel) :
                /\ IsClaimFor(channel[i], t)
                /\ \A j \in 1..(i - 1) : ~IsClaimFor(channel[j], t)]

\* The nodes inside claim_task(t), between their append and their list.
InFlight(t) == {n \in Nodes : pc[n] = "claim_settle" /\ cur[n] = t}

\* The nodes whose last claim_task call was for t and has returned.
Claimed(t) ==
    {n \in Nodes : claim_marker[n].task_id = t /\ pc[n] # "claim_settle"}

\* The announcements of a won claim of t (line 277), one per successful call.
Successes(t) ==
    {i \in 1..Len(channel) :
        \E n \in Nodes : channel[i].body = TextBody("Task Claimed", n, t)}

\* C3: once every claim_task call for a task has returned, exactly one of the
\* calls has returned success, the one that wrote the earliest claim, and
\* every other call has returned failure.
C3_ClaimMutex ==
    \A t \in TaskIds :
        (HasClaim(t) /\ InFlight(t) = {})
        => /\ Cardinality(Successes(t)) = 1
           /\ \A i \in Successes(t) :
                channel[i].body.node = EarliestClaim(t).body.node
           /\ \A n \in Claimed(t) :
                ret[n] <=> claim_marker[n] = EarliestClaim(t).body

\* Two nodes raced for a task: the loser's claim was on the channel before the
\* winner listed, and both calls have returned.
C3_Witness ==
    \E t \in TaskIds : \E a, b \in Claimed(t) :
        /\ a # b
        /\ InFlight(t) = {}
        /\ ret[a] /\ ~ret[b]
        /\ \E i, j \in 1..Len(channel) :
            /\ i < j
            /\ channel[i].body = claim_marker[b]
            /\ channel[j].body = TextBody("Task Claimed", a, t)

\* C4: every PROGRESS comment of a task was written by the author of the
\* earliest claim of that task, a node executes only a task whose earliest
\* claim is its own, and no task has reports of two nodes.
C4_OnlyWinnerReports ==
    /\ \A i \in 1..Len(channel) :
        IsProgress(channel[i]) =>
            /\ HasClaim(channel[i].body.task_id)
            /\ channel[i].body.node =
                   EarliestClaim(channel[i].body.task_id).body.node
    /\ \A n \in Nodes :
        pc[n] = "x_work" =>
            HasClaim(cur[n]) /\ EarliestClaim(cur[n]).body = claim_marker[n]
    /\ \A i, j \in 1..Len(channel) :
        (IsProgress(channel[i]) /\ IsProgress(channel[j])
            /\ channel[i].body.task_id = channel[j].body.task_id)
        => channel[i].body.node = channel[j].body.node

\* A task with claims of two nodes has been executed to its terminal report.
C4_Witness ==
    \E i, j, k \in 1..Len(channel) :
        /\ IsProgress(channel[k])
        /\ channel[k].body.status \in {"completed", "failed"}
        /\ IsClaimFor(channel[i], channel[k].body.task_id)
        /\ IsClaimFor(channel[j], channel[k].body.task_id)
        /\ channel[i].body.node # channel[j].body.node

\* The status of a task derived by replaying the channel: the status of its
\* latest progress report in the map of get_network_status; without a report,
\* claimed or available.
DerivedFrom(map, ch, t) ==
    IF t \in DOMAIN map
    THEN map[t].status
    ELSE IF \E i \in 1..Len(ch) : IsClaimFor(ch[i], t)
         THEN "claimed"
         ELSE "available"

Derived(ch, t) == DerivedFrom(TaskStatus(ProgressReports(ch)), ch, t)

Rank(st) ==
    CASE st = "available" -> 0
      [] st = "claimed" -> 1
      [] st = "in_progress" -> 2
      [] OTHER -> 3

Terminal == {"completed", "failed"}

\* C5: in every step that changes the channel the derived status of every
\* task stays or moves forward along available, claimed, in_progress,
\* terminal, and a terminal status never changes.
C5_Monotonic ==
    [][channel' = channel \/
       \A before \in {TaskStatus(ProgressReports(channel))} :
       \A after \in {TaskStatus(ProgressReports(channel'))} :
       \A t \in TaskIds :
       \A old \in {DerivedFrom(before, channel, t)} :
       \A new \in {DerivedFrom(after, channel', t)} :
            /\ Rank(new) >= Rank(old)
            /\ old \in Terminal => new = old]_vars

\* A task is terminal while another node's claim of it is on the channel.
C5_Witness ==
    \E t \in TaskIds :
        /\ Derived(channel, t) \in Terminal
        /\ \E i, j \in 1..Len(channel) :
            /\ IsClaimFor(channel[i], t) /\ IsClaimFor(channel[j], t)
            /\ channel[i].body.node # channel[j].body.node

\* C6: the per-task latest-status map computed from the reports is the same
\* for every order in which the same reports are read.
C6_OrderIndependent ==
    agg_out # << >> =>
        \A f \in ReadOrders(Len(agg_in)) :
            TaskStatus(Reordered(agg_in, f)) = agg_out

IsBeatOf(c, n) ==
    c.body.type \in {"NODE_ANNOUNCE", "HEARTBEAT"} /\ c.body.node = n

Announced(n) ==
    \E i \in 1..Len(channel) : IsAnnounce(channel[i]) /\ channel[i].body.node = n

\* The time of the node's most recent announce or HEARTBEAT comment.
LastBeat(n) ==
    LET ts == {channel[i].body.timestamp :
                  i \in {j \in 1..Len(channel) : IsBeatOf(channel[j], n)}}
    IN CHOOSE x \in ts : \A y \in ts : y <= x

Discovered(n) ==
    \E i \in 1..Len(DiscoverPeers(channel, now)) :
        DiscoverPeers(channel, now)[i].node_id = n

\* C7: an announced node whose most recent announce or HEARTBEAT comment is
\* older than the TTL is absent from discover_peers, and one whose most recent
\* announce or HEARTBEAT comment is within the TTL is in it.
C7_LivenessTTL ==
    \A n \in Nodes :
        Announced(n) =>
            /\ now - LastBeat(n) > TTL => ~Discovered(n)
            /\ now - LastBeat(n) < TTL => Discovered(n)

\* C8: discover_peers holds every node_id at most once, and active_nodes is
\* the number of distinct live node_ids.
C8_DiscoverIsSet ==
    LET peers == DiscoverPeers(channel, now) IN
    /\ \A i, j \in 1..Len(peers) : peers[i].node_id = peers[j].node_id => i = j
    /\ \A n \in Nodes :
        NetworkStatus(channel, n, now).active_nodes =
            Cardinality({peers[i].node_id : i \in 1..Len(peers)})

\* A step of node n that is a poll of wait_for_completion.
PollStep(n) ==
    /\ Waiting(n)
    /\ now - start_time[n] < timeout[n]
    /\ pc'[n] # pc[n]

ReturnsTrue(n) == pc'[n] = AfterWait(pc[n]) /\ ret'[n] = TRUE

\* C9 as stated: every poll at which completed + failed >= total holds
\* returns success at that poll, for every total.
C9_Original ==
    [][\A n \in Nodes :
         LET st == NetworkStatus(channel, n, now) IN
         (PollStep(n) /\ st.completed_tasks + st.failed_tasks >= st.total_tasks)
            => ReturnsTrue(n)]_vars

\* C9 amended: every poll at which total > 0 and completed + failed >= total
\* hold returns success at that poll without sleeping.
C9_Completion ==
    [][\A n \in Nodes :
         LET st == NetworkStatus(channel, n, now) IN
         ( /\ PollStep(n)
           /\ st.total_tasks > 0
           /\ st.completed_tasks + st.failed_tasks >= st.total_tasks )
            => ReturnsTrue(n)]_vars

\* A wait_for_completion has returned True with a failed task in the count.
C9_Witness ==
    \E n \in Nodes :
        /\ pc[n] = "l_final" /\ ret[n] = TRUE
        /\ NetworkStatus(channel, n, now).failed_tasks > 0

\* C10: for every node, total_tasks of get_network_status is the number of
\* tasks of the latest TASKS_DATA snapshot on the channel.
C10_TotalFromChannel ==
    \A n \in Nodes :
        NetworkStatus(channel, n, now).total_tasks = Len(LatestSnapshot(channel))

\* C20: every finished elect_leader call returned True exactly when the
\* node_id of the earliest election comment is the caller's node_id, a second
\* call of the author of that comment included.
C20_WinnerByNodeId ==
    \A n \in Nodes :
        Resolved(n) =>
            /\ ret[n] <=> EarliestElection.body.node = n
            /\ EarliestElection.body.node = n => is_leader[n]

\* C13: get_available_tasks returns no task that has a winning claim or a
\* progress report on the channel after the latest snapshot.
C13_ClaimProgressOverlay ==
    \A i \in 1..Len(GetAvailableTasks(channel)) :
        LET t == GetAvailableTasks(channel)[i].task_id IN
        /\ ~\E n \in Nodes, j \in 1..Len(channel) :
                channel[j].body = TextBody("Task Claimed", n, t)
        /\ ~\E j \in 1..Len(channel) :
                IsProgress(channel[j]) /\ channel[j].body.task_id = t

Snapshots(ch) == SelectSeq(ch, IsTasksData)

\* The TASKS_DATA comment the server created last.
NewestSnapshot(ch) ==
    CHOOSE c \in Range(Snapshots(ch)) :
        \A d \in Range(Snapshots(ch)) : d.created_at <= c.created_at

TaskIdsOf(list) == {list[i].task_id : i \in 1..Len(list)}

\* C12: with a snapshot on the channel, get_available_tasks returns exactly
\* the available tasks of the TASKS_DATA comment created last, and so no task
\* that only an earlier snapshot holds.
C12_SnapshotSupersession ==
    Snapshots(channel) # << >> =>
        /\ GetAvailableTasks(channel) =
               SelectSeq(NewestSnapshot(channel).body.tasks, IsAvailable)
        /\ TaskIdsOf(GetAvailableTasks(channel))
               \subseteq TaskIdsOf(NewestSnapshot(channel).body.tasks)

\* A second snapshot has been published and the first holds a task the second
\* does not.
C12_Witness ==
    /\ Len(Snapshots(channel)) = 2
    /\ Snapshots(channel)[2].body.tasks # << >>
    /\ TaskIdsOf(Snapshots(channel)[1].body.tasks)
           \ TaskIdsOf(Snapshots(channel)[2].body.tasks) # {}

\* Every TASKS_DATA comment was written by the author of the earliest election
\* comment.
SnapshotsByWinner(ch) ==
    \A i \in 1..Len(ch) :
        IsTasksData(ch[i]) =>
            /\ Exists(ch, IsElection)
            /\ ch[i].body.node = ch[FirstIdx(ch, IsElection)].body.node

\* C14: a publish_tasks call of a node that is not the leader leaves the
\* channel and the node's task map as they are, and every TASKS_DATA comment
\* was written by the node that won the election.
C14_LeaderOnlyPublish ==
    [][/\ \A n \in Nodes :
            (publishes'[n] # publishes[n] /\ ~is_leader[n])
                => (channel' = channel /\ tasks' = tasks)
       /\ SnapshotsByWinner(channel')]_vars

\* A node that is not the leader has called publish_tasks with a snapshot of
\* the leader on the channel.
C14_Witness ==
    /\ Snapshots(channel) # << >>
    /\ \E n \in Nodes : publishes[n] > 0 /\ ~is_leader[n]

\* The worker n is in its loop and its last claim_task call returned False.
LostLastClaim(n) == pc[n] = "w_loop" /\ cur[n] # NoTask /\ ~ret[n]

\* The tasks of the latest snapshot that have no claim on the channel.
Unclaimed(ch) == {t \in TaskIdsOf(LatestSnapshot(ch)) : ClaimComments(ch, t) = << >>}

\* C15: a worker whose claim_task call returns False goes on to neither
\* execute nor report, and its next claim after a lost one is for a different
\* task whenever the catalog holds another task without a claim.
C15_LostClaimMovesOn ==
    [][\A n \in Nodes :
         /\ (pc[n] = "claim_settle" /\ pc'[n] # "claim_settle" /\ ~ret'[n])
                => (pc'[n] = "w_loop" /\ channel' = channel)
         /\ (LostLastClaim(n) /\ pc'[n] = "claim_settle"
                /\ Unclaimed(channel) \ {cur[n]} # {})
                => cur'[n] # cur[n]]_vars

EarliestElectionOf(ch) == ch[FirstIdx(ch, IsElection)]

\* C18: the earliest election comment never changes once there is one, every
\* elect_leader call of a node other than its author returns False and wins
\* nothing, and a step that publishes no snapshot leaves the result of
\* get_available_tasks as it was, whether or not the leader still runs.
C18_StableLeader ==
    [][/\ Exists(channel, IsElection)
            => EarliestElectionOf(channel') = EarliestElectionOf(channel)
       /\ \A n \in Nodes :
            (pc[n] = "elect_settle" /\ pc'[n] = "idle"
                /\ EarliestElectionOf(channel).body.node # n)
            => (~ret'[n] /\ ~is_leader'[n])
       /\ Snapshots(channel') = Snapshots(channel)
            => GetAvailableTasks(channel') = GetAvailableTasks(channel)]_vars

\* The leader has published, sent a heartbeat and stopped; a node that joined
\* the election after that heartbeat has its result, and the snapshot is
\* still read.
C18_Witness ==
    \E a, b \in Nodes :
        /\ a # b
        /\ pc[a] = "crashed"
        /\ Resolved(b) /\ ~ret[b]
        /\ GetAvailableTasks(channel) # << >>
        /\ \E i, j, k \in 1..Len(channel) :
            /\ i < j /\ j < k
            /\ IsTasksData(channel[i])
            /\ IsHeartbeat(channel[j]) /\ channel[j].body.node = a
            /\ channel[k].body = marker[b]

\* C11: no wait_for_completion call ends by raising an error.
C11_AlwaysBoolean ==
    \A n \in Nodes : pc[n] # "wait_raised"

OnChannel(body) == \E i \in 1..Len(channel) : channel[i].body = body

\* C17: an elect_leader or claim_task call returns False only when its own
\* entry is on the channel and is not the earliest one, and no worker loop
\* has ended with an error.
C17_TransientRetried ==
    \A n \in Nodes :
        /\ (Resolved(n) /\ ~ret[n])
                => (OnChannel(marker[n]) /\ EarliestElection.body # marker[n])
        /\ LostLastClaim(n)
                => (OnChannel(claim_marker[n])
                    /\ EarliestClaim(cur[n]).body # claim_marker[n])
        /\ pc[n] # "loop_raised"

\* C19: run_as_leader and run_as_worker never end with an error raised by
\* cleanup, and a heartbeat loop is cancelled whenever they have ended.
C19_CleanShutdown ==
    \A n \in Nodes :
        /\ pc[n] # "cleanup_raised"
        /\ pc[n] \in {"done", "wait_raised", "loop_raised", "cleanup_raised"}
                => hb[n] = "cancelled"

\* The channel without its malformed comments.
Clean(ch) == SelectSeq(ch, WellFormed)

\* C16: with malformed comments on the channel, discover_peers,
\* get_available_tasks and get_network_status raise nothing and return what
\* they return on the channel without those comments, and so does every
\* elect_leader call about to list.
C16_MalformedSkipped ==
    /\ ~DiscoverRaises(channel)
    /\ DiscoverPeers(channel, now) = DiscoverPeers(Clean(channel), now)
    /\ GetAvailableTasks(channel) = GetAvailableTasks(Clean(channel))
    /\ ~StatusRaises(channel)
    /\ TaskStatus(ProgressReports(channel))
           = TaskStatus(ProgressReports(Clean(channel)))
    /\ \A n \in Nodes :
            pc[n] = "elect_settle" =>
                ElectionResult(channel, marker[n])
                    = ElectionResult(Clean(channel), marker[n])

\* s is an initial part of t.
IsPrefix(s, t) == Len(s) <= Len(t) /\ SubSeq(t, 1, Len(s)) = s

HasBody(ch, P(_)) == \E i \in 1..Len(ch) : P(ch[i])

\* C21: in every step the channel of the next state has the channel of the
\* current state as a prefix; no comment is deleted or rewritten.
C21_AppendOnly ==
    [][IsPrefix(channel, channel')]_vars

\* Every writing operation of the protocol has appended: election, announcement,
\* publication, claim, progress report and the departure of cleanup.
C21_Witness ==
    /\ HasBody(channel, IsElection)
    /\ HasBody(channel, IsAnnounce)
    /\ HasBody(channel, IsTasksData)
    /\ HasBody(channel, IsClaim)
    /\ HasBody(channel, IsProgress)
    /\ \E n \in Nodes : OnChannel(TextBody("Node Departing", n, NoTask))

\* The values time.time() gave to the markers of a node's elect_leader calls.
ClockValues == 1..MaxElect

\* The same entry written in a run whose local clocks read g[k] where they
\* read k in this one.
RetimedBody(body, g) ==
    IF body.type \in {"LEADER_ELECTION", "CLAIM"} /\ body.nonce \in DOMAIN g
    THEN [body EXCEPT !.nonce = g[@]]
    ELSE body

\* The channel of that run: the same entries in the same server order.
Retimed(ch, g) ==
    [i \in 1..Len(ch) |->
        [body |-> RetimedBody(ch[i].body, g), created_at |-> ch[i].created_at]]

\* C22: an elect_leader call about to list computes the same result in every
\* run that has the same election entries in the same server order and other
\* local time values in their payloads.
C22_NonceIndependent ==
    \A g \in [ClockValues -> ClockValues] :
        \A n \in Nodes :
            pc[n] = "elect_settle" =>
                ElectionResult(Retimed(channel, g), RetimedBody(marker[n], g))
                    = ElectionResult(channel, marker[n])

WorkerRunning == \E n \in Nodes : pc[n] \in {"w_loop", "claim_settle", "x_work"}

\* A leader has published at least one task and waits for the completion.
LeaderWaiting == \E n \in Nodes : pc[n] = "l_wait_check" /\ tasks[n] # << >>

HasTerminalReport(t) ==
    \E i \in 1..Len(channel) :
        /\ IsProgress(channel[i])
        /\ channel[i].body.task_id = t
        /\ channel[i].body.status \in Terminal

AllReported == \A t \in TaskIdsOf(LatestSnapshot(channel)) : HasTerminalReport(t)

WaitReturnedTrue == \E n \in Nodes : pc[n] \in {"l_final", "done"} /\ ret[n] = TRUE

\* C23: with a snapshot of at least one task published, the leader waiting and
\* a worker running, eventually every task of the snapshot has a completed or
\* failed report and the leader's wait_for_completion has returned True.
C23_WorkLoopProgress ==
    (LeaderWaiting /\ WorkerRunning) ~> (AllReported /\ WaitReturnedTrue)

\* The tasks of the latest snapshot whose latest report is terminal.
LatestTerminal(ch) ==
    {t \in TaskIdsOf(LatestSnapshot(ch)) : Derived(ch, t) \in Terminal}

\* C24: a poll of wait_for_completion returns True only when every task of
\* the latest snapshot has a terminal report, and completed + failed counts
\* the tasks of the latest snapshot only.
C24_CountsLatestSnapshot ==
    [][\A n \in Nodes :
         PollStep(n) =>
            \A st \in {NetworkStatus(channel, n, now)} :
                /\ ReturnsTrue(n) =>
                        LatestTerminal(channel) = TaskIdsOf(LatestSnapshot(channel))
                /\ st.completed_tasks + st.failed_tasks
                        = Cardinality(LatestTerminal(channel))]_vars

\* The claim and progress comments of node n on the channel.
WrittenBy(ch, n) ==
    SelectSeq(ch, LAMBDA c : (IsClaim(c) \/ IsProgress(c)) /\ c.body.node = n)

\* C25: an iteration of the worker loop that finds no available task appends
\* nothing and goes to sleep inside the loop, the sleep leads back to the read
\* of the catalog, and no worker loop has ended with an error.
C25_EmptyCatalogNoError ==
    [][\A n \in Nodes :
         /\ (pc[n] = "w_loop" /\ pc'[n] # "w_loop"
                /\ GetAvailableTasks(channel) = << >>)
            => /\ pc'[n] = "w_sleep"
               /\ channel' = channel
               /\ cur'[n] = cur[n] /\ ret'[n] = ret[n]
         /\ pc[n] = "w_sleep"
            => /\ pc'[n] \in {"w_sleep", "w_loop"}
               /\ WrittenBy(channel', n) = WrittenBy(channel, n)
         /\ pc'[n] # "loop_raised"]_vars

\* A worker has read the empty snapshot of a leader and sleeps.
C25_Witness ==
    \E n \in Nodes :
        /\ pc[n] = "w_sleep"
        /\ Snapshots(channel) # << >>
        /\ GetAvailableTasks(channel) = << >>

\* C26: a step in which a node's direct call of discover_peers,
\* get_available_tasks or get_network_status returns leaves the channel, every
\* is_leader flag and every task map as they were.
C26_ReadsArePure ==
    [][(\E n \in Nodes : found'[n] # found[n])
        => /\ channel' = channel
           /\ is_leader' = is_leader
           /\ tasks' = tasks]_vars

\* A leader with a published task map has read the status of a channel that
\* holds a snapshot, an announcement and a progress report.
C26_Witness ==
    \E n \in Nodes :
        /\ is_leader[n] /\ tasks[n] # << >>
        /\ found[n] = <<NetworkStatus(channel, n, now)>>
        /\ found[n][1].active_nodes > 0
        /\ found[n][1].available_tasks > 0
        /\ found[n][1].completed_tasks > 0

\* The channel without its HEARTBEAT comments.
WithoutBeats(ch) == SelectSeq(ch, LAMBDA c : ~IsHeartbeat(c))

\* Every call about to list computes what it computes without the heartbeats.
ResultsIgnoreBeats ==
    \A n \in Nodes :
        /\ pc[n] = "elect_settle" =>
                ElectionResult(channel, marker[n])
                    = ElectionResult(WithoutBeats(channel), marker[n])
        /\ pc[n] = "claim_settle" =>
                ClaimResult(channel, cur[n], claim_marker[n])
                    = ClaimResult(WithoutBeats(channel), cur[n], claim_marker[n])

\* C27: a step that appends a HEARTBEAT comment changes nothing of any node
\* but the sleep of the heartbeat loop, and every elect_leader and claim_task
\* call computes the result it computes on the channel without the heartbeats.
C27_HeartbeatIndependent ==
    [][/\ (\E n \in Nodes : channel' = HeartbeatComment(channel, n, now))
            => UNCHANGED <<pc, hb, is_leader, tasks, marker, claim_marker, cur,
                           ret, found, nonce, elects>>
       /\ ResultsIgnoreBeats
       /\ ResultsIgnoreBeats']_vars

\* A heartbeat lies between the election comment of a node and the
\* announcement of its win, and another between a claim and its announcement.
C27_Witness ==
    /\ \E a \in Nodes : \E i, j, k \in 1..Len(channel) :
            /\ i < j /\ j < k
            /\ channel[i].body = marker[a]
            /\ IsHeartbeat(channel[j])
            /\ IsLeaderElectedBy(channel[k], a)
    /\ \E b \in Nodes : \E i, j, k \in 1..Len(channel) :
            /\ i < j /\ j < k
            /\ channel[i].body = claim_marker[b]
            /\ IsHeartbeat(channel[j])
            /\ channel[k].body = TextBody("Task Claimed", b, cur[b])

\* The claim comments of the channel whose task id is exactly t.
ClaimsOfExactly(ch, t) ==
    SelectSeq(ch, LAMBDA c : IsClaim(c) /\ c.body.task_id = t)

\* C28: the result a claim_task(t) call is about to compute is the result it
\* computes from the claim comments whose task id is exactly t alone.
C28_ClaimsScopedPerTask ==
    \A n \in Nodes :
        pc[n] = "claim_call" =>
            ClaimResult(channel, cur[n], claim_marker[n])
                = ClaimResult(ClaimsOfExactly(channel, cur[n]), cur[n],
                              claim_marker[n])

\* C28, for task ids without a '|' character.
C28_ScopedPlainIds ==
    (\A i \in 1..Len(channel) :
        IsClaim(channel[i]) => Len(Segments(channel[i].body.task_id)) = 1)
        => C28_ClaimsScopedPerTask

\* The election comments and the claim comments a node wrote.
MarkersBy(ch, n) ==
    SelectSeq(ch, LAMBDA c : (IsElection(c) \/ IsClaim(c)) /\ c.body.node = n)

AllBy(ch, n) == SelectSeq(ch, LAMBDA c : c.body.node = n)

InCall(n) == pc[n] \in {"elect_settle", "claim_call"}

\* C29: a call of elect_leader or claim_task appends one marker, and from its
\* settle sleep its one list step is always possible, whatever the other
\* nodes do; that step ends the call and appends the announcement if the call
\* won and nothing otherwise; the node writes nothing while it sleeps, and
\* has written one marker per call.
C29_BoundedCalls ==
    [][\A n \in Nodes :
        /\ pc[n] = "elect_settle" => ENABLED ElectResolve(n)
        /\ pc[n] = "claim_call" => ENABLED ClaimTaskReturn(n)
        /\ (~InCall(n) /\ InCall(n)') =>
                /\ Len(channel') = Len(channel) + 1
                /\ Len(MarkersBy(channel', n)) = Len(MarkersBy(channel, n)) + 1
        /\ (InCall(n) /\ InCall(n)') => AllBy(channel', n) = AllBy(channel, n)
        /\ (InCall(n) /\ ~InCall(n)') =>
                /\ pc'[n] = "idle"
                /\ Len(channel') = Len(channel) + (IF ret'[n] THEN 1 ELSE 0)
                /\ MarkersBy(channel', n) = MarkersBy(channel, n)
        /\ Len(MarkersBy(channel, n)) = nonce[n]]_vars

\* One node has lost an election and returned, another has lost a claim and
\* returned, each with its one marker on the channel.
C29_Witness ==
    \E a, b \in Nodes :
        /\ pc[a] = "idle" /\ elects[a] = 1 /\ ~is_leader[a]
        /\ Len(MarkersBy(channel, a)) = 1
        /\ pc[b] = "idle" /\ nonce[b] = elects[b] + 1
        /\ \E i \in 1..Len(channel) : channel[i].body = claim_marker[b]
        /\ ~ClaimResult(channel, cur[b], claim_marker[b])

\* The node's own election comment is the earliest on the channel.
OwnEntryEarliest(ch, n) ==
    /\ Len(ElectionComments(ch)) > 0
    /\ MinByCreatedAt(ElectionComments(ch)).body.node = n

ElectReturns(n) == pc[n] = "elect_settle" /\ pc'[n] = "idle"

\* C30: when a call of elect_leader returns, on every path, the one where a
\* channel operation fails included, the value returned equals the is_leader
\* flag of the node.
C30_ReturnMatchesFlag ==
    [][\A n \in Nodes : ElectReturns(n) => ret'[n] = is_leader'[n]]_vars

\* C30, second part: the value returned is True exactly when the node's own
\* election comment is the earliest of the channel.
C30_TrueIffEarliest ==
    [][\A n \in Nodes :
        ElectReturns(n) => (ret'[n] <=> OwnEntryEarliest(channel', n))]_vars

\* C30, one direction: a call that returns True has set the flag, and the
\* flag is set only on a node whose own comment is the earliest.
C30_ReturnImpliesFlag ==
    [][\A n \in Nodes :
        ElectReturns(n) =>
            /\ ret'[n] => is_leader'[n]
            /\ is_leader'[n] => OwnEntryEarliest(channel', n)]_vars

\* The calls of claim_task for task t that have returned success, each seen
\* by the announcement of line 277 it appended.
IsTaskClaimed(c, t) ==
    \E n \in Nodes : c.body = TextBody("Task Claimed", n, t)

SuccessesOf(ch, t) == SelectSeq(ch, LAMBDA c : IsTaskClaimed(c, t))

ClaimReturnsTrue(n) == pc[n] = "claim_call" /\ pc'[n] = "idle" /\ ret'[n]

\* C31: over the whole history of the channel at most one claim_task call per
\* task id returns success: a call returns success only when no call for its
\* task id has done so before, by any node, the caller included, and whatever
\* snapshots were published in between.
C31_OneSuccessPerTask ==
    [][\A n \in Nodes :
        /\ ClaimReturnsTrue(n) => SuccessesOf(channel, cur[n]) = << >>
        /\ \A t \in ScopedTaskIds : Len(SuccessesOf(channel', t)) <= 1]_vars

\* A node won a task, a snapshot with the task was published afterwards, and
\* the node's later claim of the same task has returned failure.
C31_Witness ==
    \E a \in Nodes : \E i, j, k \in 1..Len(channel) :
        /\ i < j /\ j < k
        /\ channel[i].body = TextBody("Task Claimed", a, cur[a])
        /\ IsTasksData(channel[j])
        /\ cur[a] \in TaskIdsOf(channel[j].body.tasks)
        /\ channel[k].body = claim_marker[a]
        /\ pc[a] = "idle" /\ ~ret[a]

\* C32: whenever a task has a claim, and so an earliest claim, whose node
\* keeps running, a completed or failed progress report of the task is
\* eventually on the channel, also when an append fails after the claim was
\* won.
C32_WonClaimFollowedThrough ==
    \A t \in TaskIds : HasClaim(t) ~> HasTerminalReport(t)

\* The positions of the PROGRESS comments of task t with a status of sts.
ReportsAt(t, sts) ==
    {i \in 1..Len(channel) :
        /\ IsProgress(channel[i])
        /\ channel[i].body.task_id = t
        /\ channel[i].body.status \in sts}

\* Over a channel whose calls never fail: every completed or failed PROGRESS
\* comment of a task comes after an in_progress PROGRESS comment of the task,
\* no in_progress comment of the task comes after it, and a task has at most
\* one completed or failed PROGRESS comment.
StartedBeforeTerminal ==
    \A t \in TaskIds :
        /\ \A j \in ReportsAt(t, {"completed", "failed"}) :
            /\ \E i \in ReportsAt(t, {"in_progress"}) : i < j
            /\ \A i \in ReportsAt(t, {"in_progress"}) : i < j
        /\ Cardinality(ReportsAt(t, {"completed", "failed"})) <= 1

\* C33: on the channel every in_progress PROGRESS comment of a task comes
\* before the completed or failed PROGRESS comment of the task, a completed
\* one has an in_progress one before it, and a task has at most one completed
\* or failed PROGRESS comment, never both; also when a report of execute_task
\* fails.
C33_ReportOrder ==
    \A t \in TaskIds :
        /\ \A j \in ReportsAt(t, {"completed", "failed"}) :
                \A i \in ReportsAt(t, {"in_progress"}) : i < j
        /\ \A j \in ReportsAt(t, {"completed"}) :
                \E i \in ReportsAt(t, {"in_progress"}) : i < j
        /\ Cardinality(ReportsAt(t, {"completed", "failed"})) <= 1

\* A task has been executed to its end while another worker claimed it too:
\* its in_progress report, then its failed report, then a later claim.
C33_Witness ==
    \E t \in TaskIds : \E i \in ReportsAt(t, {"in_progress"}) :
        \E j \in ReportsAt(t, {"failed"}) : \E k \in 1..Len(channel) :
            i < j /\ j < k /\ IsClaimFor(channel[k], t)

\* The task ids a result of get_network_status counts as available, and
\* those it counts as in_progress, completed or failed.
CountedAvailable(ch) == TaskIdsOf(GetAvailableTasks(ch))

CountedByReport(st) ==
    {t \in DOMAIN st.task_status :
        st.task_status[t].status \in {"in_progress", "completed", "failed"}}

\* C34: in the result of get_network_status at every poll of the leader, no
\* task id is counted as available and also as in_progress, completed or
\* failed, and the four counts together do not exceed total_tasks.
C34_CountsConsistent ==
    [][\A n \in Nodes :
         PollStep(n) =>
            \A st \in {NetworkStatus(channel, n, now)} :
                /\ CountedAvailable(channel) \cap CountedByReport(st) = {}
                /\ st.available_tasks + st.in_progress_tasks
                        + st.completed_tasks + st.failed_tasks <= st.total_tasks]_vars

\* C34, for the three counts taken from the progress reports: each reported
\* task id is counted once, in the category of the report kept for it.
C34_ReportCountsDisjoint ==
    [][\A n \in Nodes :
         PollStep(n) =>
            \A st \in {NetworkStatus(channel, n, now)} :
                st.in_progress_tasks + st.completed_tasks + st.failed_tasks
                    = Cardinality(CountedByReport(st))]_vars

\* C35: whenever the leader is not inside a call, its task map holds the
\* tasks of the latest TASKS_DATA comment of the channel, also after a
\* publish_tasks call that failed.
C35_MapMatchesSnapshot ==
    \A n \in Nodes :
        (is_leader[n] /\ pc[n] = "idle") =>
            TaskIdsOf(tasks[n]) = TaskIdsOf(LatestSnapshot(channel))

\* C36: no step of any node takes the is_leader flag of a node from True to
\* False.
C36_LeadershipKept ==
    [][\A n \in Nodes : is_leader[n] => is_leader'[n]]_vars

\* The leader has called elect_leader a second time and lost, has then run
\* run_as_leader and sent a heartbeat, and still carries the flag.
C36_Witness ==
    \E n \in Nodes :
        /\ is_leader[n] /\ elects[n] = 2 /\ ~ret[n]
        /\ pc[n] # "idle"
        /\ \E i \in 1..Len(channel) :
              IsHeartbeat(channel[i]) /\ channel[i].body.node = n

\* The 'Node Departing' comment of node n is on the channel.
Departed(ch, n) ==
    \E i \in 1..Len(ch) : ch[i].body = TextBody("Node Departing", n, NoTask)

HeartbeatsBy(ch, n) ==
    SelectSeq(ch, LAMBDA c : IsHeartbeat(c) /\ c.body.node = n)

\* C37: once the 'Node Departing' comment of a node is on the channel, no
\* step appends a HEARTBEAT comment of that node.
C37_NoHeartbeatAfterDeparture ==
    [][\A n \in Nodes :
        Departed(channel, n) => HeartbeatsBy(channel', n) = HeartbeatsBy(channel, n)]_vars

\* A leader has sent a heartbeat and departed at the end of run_as_leader,
\* its next heartbeat would be due, and another node has sent a heartbeat
\* after the departure.
C37_Witness ==
    \E n \in Nodes :
        /\ pc[n] = "done"
        /\ now >= next_hb[n]
        /\ IsHeartbeat(channel[Len(channel)])
        /\ channel[Len(channel)].body.node # n
        /\ \E j \in 1..Len(channel) :
            /\ channel[j].body = TextBody("Node Departing", n, NoTask)
            /\ \E i \in 1..(j - 1) :
                  IsHeartbeat(channel[i]) /\ channel[i].body.node = n

\* Line 40: the priorities of a task, from the least to the most urgent.
PriorityRank(p) ==
    CASE p = "low" -> 1
      [] p = "medium" -> 2
      [] p = "high" -> 3
      [] p = "critical" -> 4

\* A worker leaves the head of its loop with a claim.
ClaimAttempt(n) == pc[n] = "w_loop" /\ pc'[n] = "claim_settle"

\* C38: in every iteration of the worker loop that claims, the task claimed
\* has the highest priority among the tasks get_available_tasks returned,
\* whatever their order in the snapshot.
C38_HighestPriorityFirst ==
    [][\A n \in Nodes :
        ClaimAttempt(n) =>
            \A list \in {GetAvailableTasks(channel)} :
                \E i \in 1..Len(list) :
                    /\ list[i].task_id = cur'[n]
                    /\ \A j \in 1..Len(list) :
                          PriorityRank(list[j].priority) <= PriorityRank(list[i].priority)]_vars

\* C38, as the code has it: the task claimed is the first of the list.
C38_FirstOfSnapshot ==
    [][\A n \in Nodes :
        ClaimAttempt(n) => cur'[n] = GetAvailableTasks(channel)[1].task_id]_vars

====
